---- MODULE Spec2Model ----
(***************************************************************************)
(* Model of the fraud-triage prototype in src/main.py: the keyword scorer  *)
(* behind POST /detect-sms, the indicator scorer behind POST /detect-email *)
(* and the content-sniffing dispatch router (smart_router) behind POST /,  *)
(* /detect-audio, /honeypot and /api/voice-detection.                      *)
(*                                                                         *)
(* Python strings are sequences of one-character strings, so that lower(), *)
(* split(), == and the substring operator `in` are computed, not assumed.  *)
(* Python floats that carry a probability are kept in hundredths:          *)
(* 0.2 is 20, 0.99 is 99.  Every comparison the code makes on them         *)
(* (> 0.4, > 0.5, min(.., 0.99)) has the same outcome on the IEEE doubles  *)
(* as on the hundredths for all reachable operands (0.2*k for k >= 0 and   *)
(* the sums 0.1 + 0.4 + 0.3 + 0.2 taken in source order).                  *)
(***************************************************************************)
EXTENDS Integers, Sequences, FiniteSets, TLC

\* ------------------------------------------------------------------------
\* Bounds of the explored inputs
\* ------------------------------------------------------------------------
MaxSmsPieces   == 6    \* an sms text is the concatenation of at most this many pieces
MaxEmailPieces == 2    \* each email field is the concatenation of at most this many pieces
MaxBodyPieces  == 2    \* a JSON string body is the concatenation of at most this many pieces

\* ------------------------------------------------------------------------
\* Python string primitives
\* ------------------------------------------------------------------------
UpperLetters ==
  <<"A","B","C","D","E","F","G","H","I","J","K","L","M",
    "N","O","P","Q","R","S","T","U","V","W","X","Y","Z">>

LowerLetters ==
  <<"a","b","c","d","e","f","g","h","i","j","k","l","m",
    "n","o","p","q","r","s","t","u","v","w","x","y","z">>

LowerChar(c) ==
  IF \E i \in 1..26 : UpperLetters[i] = c
  THEN LowerLetters[CHOOSE i \in 1..26 : UpperLetters[i] = c]
  ELSE c

\* str.lower()
Lower(s) == [i \in 1..Len(s) |-> LowerChar(s[i])]

Whitespace == {" ", "\t", "\n"}

RECURSIVE SplitFrom(_, _, _, _)
SplitFrom(s, i, cur, acc) ==
  IF i > Len(s)
  THEN IF cur = <<>> THEN acc ELSE Append(acc, cur)
  ELSE IF s[i] \in Whitespace
       THEN SplitFrom(s, i + 1, <<>>, IF cur = <<>> THEN acc ELSE Append(acc, cur))
       ELSE SplitFrom(s, i + 1, Append(cur, s[i]), acc)

\* str.split() without arguments: split on runs of whitespace, no empty words
Split(s) == SplitFrom(s, 1, <<>>, <<>>)

HasAt(sub, s, i) == \A j \in 1..Len(sub) : s[i + j - 1] = sub[j]

\* Python's  sub in s  on two strings
Contains(sub, s) == \E i \in 1..(Len(s) - Len(sub) + 1) : HasAt(sub, s, i)

RECURSIVE Concat(_)
Concat(ps) == IF ps = <<>> THEN <<>> ELSE Head(ps) \o Concat(Tail(ps))

Min(a, b) == IF a <= b THEN a ELSE b

SeqsUpTo(S, n) == UNION {[1..k -> S] : k \in 0..n}

\* ------------------------------------------------------------------------
\* POST /detect-sms
\* ------------------------------------------------------------------------
phishing_keywords ==
  << <<"u","r","g","e","n","t">>,
     <<"v","e","r","i","f","y">>,
     <<"a","c","c","o","u","n","t">>,
     <<"s","u","s","p","e","n","d","e","d">>,
     <<"c","l","i","c","k">>,
     <<"l","i","n","k">>,
     <<"b","a","n","k">>,
     <<"p","r","i","z","e">>,
     <<"w","i","n","n","e","r">> >>

InKeywords(word) == \E k \in 1..Len(phishing_keywords) : phishing_keywords[k] = word

RECURSIVE CountHits(_)
CountHits(words) ==
  IF words = <<>> THEN 0
  ELSE (IF InKeywords(Head(words)) THEN 1 ELSE 0) + CountHits(Tail(words))

\* the loop of detect_sms_phishing over text.lower().split()
sms_score(text) == CountHits(Split(Lower(text)))

probability_cap100(score) == Min(score * 20, 100)

\* probability = min(score * 0.2, 0.99), in hundredths
sms_probability(score) == Min(score * 20, 99)

detect_sms_phishing(text) ==
  LET score       == sms_score(text)
      probability == sms_probability(score)
  IN  [status      |-> "success",
       is_phishing |-> probability > 40,
       probability |-> probability,
       explanation |-> IF score > 0
                       THEN [fmt |-> "Found {score} suspicious keywords.", score |-> score]
                       ELSE [fmt |-> "No suspicious keywords found.", score |-> 0]]

\* pieces the sms texts are built from
SmsPieces ==
  { <<"u","r","g","e","n","t"," ">>,
    <<"U","R","G","E","N","T",":"," ">>,
    <<"V","e","r","i","f","y"," ">>,
    <<"a","c","c","o","u","n","t","s"," ">>,
    <<"b","a","n","k">> }

SmsTexts == {Concat(ps) : ps \in SeqsUpTo(SmsPieces, MaxSmsPieces)}

\* ------------------------------------------------------------------------
\* POST /detect-email
\* ------------------------------------------------------------------------
suspicious_domains ==
  << <<"f","r","e","e","-","m","o","n","e","y",".","c","o","m">>,
     <<"v","e","r","i","f","y","-","a","c","c","o","u","n","t",".","n","e","t">>,
     <<"u","r","g","e","n","t","-","n","o","t","i","c","e",".","o","r","g">> >>

SenderIndicator(sender) ==
  \E d \in 1..Len(suspicious_domains) : Contains(suspicious_domains[d], sender)

SubjectIndicator(subject) ==
  \/ Contains(<<"u","r","g","e","n","t">>, Lower(subject))
  \/ Contains(<<"a","c","t","i","o","n"," ","r","e","q","u","i","r","e","d">>, Lower(subject))

BodyIndicator(body) ==
  \/ Contains(<<"p","a","s","s","w","o","r","d">>, Lower(body))
  \/ Contains(<<"c","r","e","d","i","t"," ","c","a","r","d">>, Lower(body))

\* scam_score before the cap, in hundredths
email_scam_score(sender, subject, body) ==
  10 + (IF SenderIndicator(sender) THEN 40 ELSE 0)
     + (IF SubjectIndicator(subject) THEN 30 ELSE 0)
     + (IF BodyIndicator(body) THEN 20 ELSE 0)

email_is_scam_ge(scam_score) == scam_score >= 50

\* scam_score > 0.5
email_is_scam(scam_score) == scam_score > 50

detect_email_scam(sender, subject, body) ==
  LET scam_score == email_scam_score(sender, subject, body)
  IN  [status     |-> "success",
       scam_score |-> Min(scam_score, 99),
       verdict    |-> IF email_is_scam(scam_score) THEN "SCAM" ELSE "SAFE",
       analysis   |-> IF email_is_scam(scam_score)
                      THEN "High scam likelihood." ELSE "Seems safe."]

SenderPieces ==
  { <<"a","d","m","i","n","@">>,
    <<"f","r","e","e","-","m","o","n","e","y",".","c","o","m">>,
    <<"F","R","E","E","-","M","O","N","E","Y",".","C","O","M">> }

SubjectPieces ==
  { <<"U","R","G","E","N","T"," ">>,
    <<"A","c","t","i","o","n"," ","R","e","q","u","i","r","e","d">>,
    <<"Y","o","u"," ","w","o","n","!">> }

BodyPieces ==
  { <<"P","a","s","s","w","o","r","d">>,
    <<"c","r","e","d","i","t"," ","c","a","r","d">>,
    <<"C","l","i","c","k"," ","h","e","r","e",".">> }

Senders  == {Concat(ps) : ps \in SeqsUpTo(SenderPieces, MaxEmailPieces)}
Subjects == {Concat(ps) : ps \in SeqsUpTo(SubjectPieces, MaxEmailPieces)}
Bodies   == {Concat(ps) : ps \in SeqsUpTo(BodyPieces, MaxEmailPieces)}

\* ------------------------------------------------------------------------
\* POST /, /detect-audio, /honeypot, /api/voice-detection
\* ------------------------------------------------------------------------
SUBMISSION_API_KEY == <<"m","y","s","e","c","r","e","t","k","e","y">>

K_audioBase64 == <<"a","u","d","i","o","B","a","s","e","6","4">>
K_sessionId   == <<"s","e","s","s","i","o","n","I","d">>
K_message     == <<"m","e","s","s","a","g","e">>
K_language    == <<"l","a","n","g","u","a","g","e">>
K_text        == <<"t","e","x","t">>

RouterPaths == {"/", "/detect-audio", "/honeypot", "/api/voice-detection"}

\* a header parameter: Header(None) leaves None when the header is not sent
None == [present |-> FALSE, val |-> <<>>]
Hdr(v) == [present |-> TRUE, val |-> v]

\* Python truthiness of an optional string: None and "" are falsy
Truthy(h) == h.present /\ h.val # <<>>

\* api_key = x_api_key or authorization
resolve_api_key(x_api_key, authorization) ==
  IF Truthy(x_api_key) THEN x_api_key ELSE authorization

\* api_key == SUBMISSION_API_KEY
KeyMatches(api_key) == api_key.present /\ api_key.val = SUBMISSION_API_KEY

\* JSONResponse(status_code=exc.status_code,
\*              content={"status": "error", "message": exc.detail})
custom_http_exception_handler(status_code, detail) ==
  [status_code |-> status_code,
   content     |-> [status |-> "error", message |-> detail],
   handler     |-> "none",
   fault       |-> FALSE]

\* an exception that is not an HTTPException (TypeError, AttributeError)
\* leaves the route: the framework answers 500 with a plain-text body
UncaughtFault ==
  [status_code |-> 500,
   content     |-> [status |-> "Internal Server Error", message |-> ""],
   handler     |-> "none",
   fault       |-> TRUE]

handle_voice_logic(language_input) ==
  [status_code |-> 200,
   content     |-> [status          |-> "success",
                    language        |-> language_input,
                    classification  |-> "HUMAN",
                    confidenceScore |-> 98,
                    explanation     |-> "Natural pitch variation and background noise consistent with human recording."],
   handler     |-> "voice",
   fault       |-> FALSE]

handle_honeypot_logic ==
  [status_code |-> 200,
   content     |-> [status |-> "success",
                    reply  |-> "I am confused. Why is my account being suspended? Can you explain?"],
   handler     |-> "honeypot",
   fault       |-> FALSE]

\* The request body.  kind "invalid" is a body request.json() cannot parse;
\* the other kinds are the JSON values it returns.
JsonValue(kind, keys, language, items, chars) ==
  [kind |-> kind, keys |-> keys, language |-> language, items |-> items, chars |-> chars]

\* Python's  key in data  is defined for dict (keys), list (elements) and
\* str (substring); for int, bool and None it raises TypeError
SupportsIn(data) == data.kind \in {"object", "array", "string"}

In(key, data) ==
  CASE data.kind = "object" -> key \in data.keys
    [] data.kind = "array"  -> key \in data.items
    [] data.kind = "string" -> Contains(key, data.chars)
    [] OTHER                -> FALSE

is_protected_session_only(data) == In(K_sessionId, data)

\* is_protected_action = "audioBase64" in data or "sessionId" in data
is_protected_action(data) == In(K_audioBase64, data) \/ In(K_sessionId, data)

classify_truthy_message(data) ==
  IF In(K_audioBase64, data) THEN "Voice" ELSE "HoneypotConversation"

classify_honeypot_first(data) ==
  IF In(K_sessionId, data) \/ In(K_message, data) THEN "HoneypotConversation"
  ELSE IF In(K_audioBase64, data) THEN "Voice"
  ELSE "Unknown"

\* the if / elif / else chain of Step C
classify(data) ==
  IF In(K_audioBase64, data) THEN "Voice"
  ELSE IF In(K_sessionId, data) \/ In(K_message, data) THEN "HoneypotConversation"
  ELSE "Unknown"

\* lang = data.get("language", "English"); only a dict has .get
voice_language(data) ==
  IF K_language \in data.keys THEN data.language ELSE "English"

smart_router(x_api_key, authorization, body) ==
  LET api_key == resolve_api_key(x_api_key, authorization)
      data    == body
  IN  IF body.kind = "invalid"
      THEN custom_http_exception_handler(400, "Malformed JSON")
      ELSE IF ~SupportsIn(data)
      THEN UncaughtFault
      ELSE IF is_protected_action(data) /\ ~KeyMatches(api_key)
      THEN custom_http_exception_handler(401, "Invalid API key or malformed request")
      ELSE CASE classify(data) = "Voice" ->
                  IF data.kind = "object"
                  THEN handle_voice_logic(voice_language(data))
                  ELSE UncaughtFault
             [] classify(data) = "HoneypotConversation" -> handle_honeypot_logic
             [] OTHER -> custom_http_exception_handler(400, "Unknown request type")

\* header values sent by clients
WrongKey     == <<"w","r","o","n","g","k","e","y">>
BearerKey    == <<"B","e","a","r","e","r"," ">> \o SUBMISSION_API_KEY
LowBearerKey == <<"b","e","a","r","e","r"," ">> \o SUBMISSION_API_KEY

XApiKeyValues ==
  {None, Hdr(<<>>), Hdr(SUBMISSION_API_KEY), Hdr(WrongKey), Hdr(BearerKey)}

AuthorizationValues ==
  {None, Hdr(<<>>), Hdr(SUBMISSION_API_KEY), Hdr(WrongKey), Hdr(BearerKey),
   Hdr(LowBearerKey)}

\* request bodies sent by clients
ObjectKeys   == {K_audioBase64, K_sessionId, K_message, K_language, K_text}
LanguageVals == {"Tamil", "English"}
ArrayItems   == {K_audioBase64, K_sessionId, K_message, K_text}
StringPieces == {K_audioBase64, K_sessionId, K_message, <<"x">>}

RequestBodies ==
  {JsonValue("invalid", {}, "", {}, <<>>)}
  \cup {JsonValue(k, {}, "", {}, <<>>) : k \in {"number", "bool", "null"}}
  \cup {JsonValue("object", ks, "", {}, <<>>) : ks \in SUBSET (ObjectKeys \ {K_language})}
  \cup {JsonValue("object", ks \cup {K_language}, l, {}, <<>>) :
          ks \in SUBSET (ObjectKeys \ {K_language}), l \in LanguageVals}
  \cup {JsonValue("array", {}, "", is, <<>>) : is \in SUBSET ArrayItems}
  \cup {JsonValue("string", {}, "", {}, Concat(ps)) :
          ps \in SeqsUpTo(StringPieces, MaxBodyPieces)}

\* ------------------------------------------------------------------------
\* State: one request at a time, no state kept across requests
\* ------------------------------------------------------------------------
VARIABLES pc, req, resp

vars == <<pc, req, resp>>

NoRequest  == [endpoint |-> "none"]
NoResponse == [status_code |-> 0]

Init ==
  /\ pc = "idle"
  /\ req = NoRequest
  /\ resp = NoResponse

detect_sms ==
  /\ pc = "idle"
  /\ \E text \in SmsTexts :
       /\ req' = [endpoint |-> "/detect-sms", text |-> text]
       /\ resp' = [status_code |-> 200, content |-> detect_sms_phishing(text)]
  /\ pc' = "done"

detect_email ==
  /\ pc = "idle"
  /\ \E sender \in Senders, subject \in Subjects, body \in Bodies :
       /\ req' = [endpoint |-> "/detect-email",
                  sender |-> sender, subject |-> subject, body |-> body]
       /\ resp' = [status_code |-> 200,
                   content |-> detect_email_scam(sender, subject, body)]
  /\ pc' = "done"

post_smart_router ==
  /\ pc = "idle"
  /\ \E path \in RouterPaths, x_api_key \in XApiKeyValues,
        authorization \in AuthorizationValues, body \in RequestBodies :
       /\ req' = [endpoint |-> path, x_api_key |-> x_api_key,
                  authorization |-> authorization, body |-> body]
       /\ resp' = smart_router(x_api_key, authorization, body)
  /\ pc' = "done"

\* the response has been sent; the server keeps nothing of the request
Respond ==
  /\ pc = "done"
  /\ pc' = "idle"
  /\ req' = NoRequest
  /\ resp' = NoResponse

Next ==
  \/ detect_sms
  \/ detect_email
  \/ post_smart_router
  \/ Respond

Spec == Init /\ [][Next]_vars

\* ------------------------------------------------------------------------
\* Properties
\* ------------------------------------------------------------------------
RouterDone == pc = "done" /\ req.endpoint \in RouterPaths
SmsDone    == pc = "done" /\ req.endpoint = "/detect-sms"
EmailDone  == pc = "done" /\ req.endpoint = "/detect-email"

IsMapping(data) == data.kind = "object"

Credential == resolve_api_key(req.x_api_key, req.authorization)

\* C1: a mapping body with the key audioBase64 reaches the voice handler when
\* the resolved credential equals the secret, and otherwise ends in 401
\* without any handler being invoked.
C1_VoiceGate ==
  (RouterDone /\ IsMapping(req.body) /\ K_audioBase64 \in req.body.keys) =>
    IF Credential.present /\ Credential.val = SUBMISSION_API_KEY
    THEN resp.status_code = 200 /\ resp.handler = "voice"
    ELSE /\ resp.status_code = 401
         /\ resp.handler = "none"
         /\ resp.content.status = "error"

C1_Witness ==
  /\ RouterDone
  /\ IsMapping(req.body)
  /\ K_audioBase64 \in req.body.keys
  /\ req.x_api_key = Hdr(WrongKey)
  /\ resp.status_code = 401
  /\ resp.handler = "none"

\* C2: every request that reaches the voice handler or the honeypot handler
\* carried a credential equal to the configured secret.
C2_HandlersRequireSecret ==
  (RouterDone /\ resp.handler \in {"voice", "honeypot"}) =>
    (Credential.present /\ Credential.val = SUBMISSION_API_KEY)

\* C3: for a protected payload, a request in which either credential header
\* equals the secret is not rejected with 401.
C3_EitherHeaderAuthenticates ==
  (/\ RouterDone
   /\ SupportsIn(req.body)
   /\ is_protected_action(req.body)
   /\ \/ req.x_api_key = Hdr(SUBMISSION_API_KEY)
      \/ req.authorization = Hdr(SUBMISSION_API_KEY))
  => resp.status_code # 401

\* strip a leading case-insensitive "Bearer " from an Authorization value
StripBearer(v) ==
  IF Len(v) >= 7 /\ Lower(SubSeq(v, 1, 7)) = <<"b","e","a","r","e","r"," ">>
  THEN SubSeq(v, 8, Len(v))
  ELSE v

\* C4: when the credential comes from the Authorization header, a value
\* "Bearer <secret>" (any letter case of Bearer) authenticates a protected
\* payload exactly as the bare secret does, i.e. it is not rejected with 401.
C4_BearerPrefixStripped ==
  (/\ RouterDone
   /\ SupportsIn(req.body)
   /\ is_protected_action(req.body)
   /\ ~Truthy(req.x_api_key)
   /\ req.authorization.present
   /\ StripBearer(req.authorization.val) = SUBMISSION_API_KEY)
  => resp.status_code # 401

\* C5: a mapping body with none of the keys audioBase64, sessionId, message
\* ends in 400 "Unknown request type" whatever the credential is; never in
\* 401 and never in a handler.
C5_UnknownShape ==
  (/\ RouterDone
   /\ IsMapping(req.body)
   /\ req.body.keys \cap {K_audioBase64, K_sessionId, K_message} = {})
  => /\ resp.status_code = 400
     /\ resp.content = [status |-> "error", message |-> "Unknown request type"]
     /\ resp.handler = "none"

C5_Witness ==
  /\ RouterDone
  /\ IsMapping(req.body)
  /\ req.body.keys = {}
  /\ req.x_api_key = None
  /\ req.authorization = Hdr(WrongKey)
  /\ resp.status_code = 400
  /\ resp.content.message = "Unknown request type"

\* C6: every request to the router ends in Handled (200), AuthError (401),
\* MalformedInputError (400) or UnclassifiableShapeError (400), every failure
\* being the object {status: "error", message}; none ends in an uncaught
\* fault.
C6_NoUncaughtFault ==
  RouterDone =>
    /\ ~resp.fault
    /\ resp.status_code \in {200, 400, 401}
    /\ resp.status_code # 200 => resp.content.status = "error"

SmsHits == resp.content.explanation.score

DistinctSubstringKeywords(text) ==
  {k \in 1..Len(phishing_keywords) : Contains(phishing_keywords[k], Lower(text))}

\* C8: the keyword rule awards 20 points times the number of distinct
\* keywords that occur as case-insensitive substrings of the text.
C8_DistinctSubstringScoring ==
  SmsDone =>
    20 * SmsHits = 20 * Cardinality(DistinctSubstringKeywords(req.text))

Authenticated == Credential.present /\ Credential.val = SUBMISSION_API_KEY

\* C9: an authenticated mapping body containing audioBase64 goes to the voice
\* handler even when sessionId or message are present too, the honeypot
\* handler is chosen only when audioBase64 is absent, and a voice payload
\* without a language key is handled with language "English".
C9_PriorityOrder ==
  /\ (RouterDone /\ IsMapping(req.body) /\ Authenticated
        /\ K_audioBase64 \in req.body.keys)
     => /\ resp.status_code = 200
        /\ resp.handler = "voice"
        /\ K_language \notin req.body.keys => resp.content.language = "English"
        /\ K_language \in req.body.keys => resp.content.language = req.body.language
  /\ (RouterDone /\ resp.handler = "honeypot")
     => (SupportsIn(req.body) /\ ~In(K_audioBase64, req.body))

C9_Witness ==
  /\ RouterDone
  /\ IsMapping(req.body)
  /\ req.body.keys = {K_audioBase64, K_sessionId, K_message}
  /\ Authenticated
  /\ resp.handler = "voice"
  /\ resp.content.language = "English"

EmailIndicators ==
  (IF SenderIndicator(req.sender) THEN 1 ELSE 0)
  + (IF SubjectIndicator(req.subject) THEN 1 ELSE 0)
  + (IF BodyIndicator(req.body) THEN 1 ELSE 0)

\* C10: detect_email_scam answers SCAM exactly when at least two of its three
\* indicators fire; one indicator alone, even the sender domain (0.1 + 0.4),
\* gives SAFE; the verdict is taken on the uncapped score and the reported
\* scam_score never exceeds 0.99.
C10_TwoIndicators ==
  EmailDone =>
    /\ resp.content.verdict = "SCAM" <=> EmailIndicators >= 2
    /\ resp.content.verdict \in {"SCAM", "SAFE"}
    /\ resp.content.scam_score <= 99
    /\ EmailIndicators = 3 =>
         (resp.content.scam_score = 99 /\ resp.content.verdict = "SCAM")

C10_Witness ==
  /\ EmailDone
  /\ SenderIndicator(req.sender)
  /\ EmailIndicators = 1
  /\ resp.content.scam_score = 50
  /\ resp.content.verdict = "SAFE"

====
